---- MODULE Spec2Model ----
(***************************************************************************)
(* Model of src/scrolly.js: the step-enter handler of a scrollytelling     *)
(* page, the sticky-container transition it runs, the content renderers    *)
(* and the setTimeout callbacks they leave behind.                         *)
(*                                                                         *)
(* JavaScript is single threaded: one run of handleStepEnter, and one run  *)
(* of a timer callback, is one atomic action.  Time is explicit, so that   *)
(* the order in which callbacks of different events fire is the order      *)
(* their deadlines give.                                                   *)
(***************************************************************************)
EXTENDS Integers, Sequences, FiniteSets, TLC

\* ------------------------------------------------------------ JS values

\* A JS string of interest is a tuple of one-character strings, so that
\* parseInt, parseFloat and template literals are computed, not assumed.
Digits == <<"0", "1", "2", "3", "4", "5", "6", "7", "8", "9">>

DigitVal(c) == (CHOOSE i \in 1..Len(Digits) : Digits[i] = c) - 1

RECURSIVE parseDigits(_, _)
parseDigits(s, acc) ==
  IF s = <<>> THEN acc
  ELSE parseDigits(Tail(s), acc * Len(Digits) + DigitVal(Head(s)))

\* parseInt / parseFloat of a string of decimal digits (the only strings
\* the page below carries in data-step and data-text-horizontal-percentage).
parseInt(s) == parseDigits(s, 0)

parseFloat(s) == parseDigits(s, 0)

\* String(n) for a natural number n, as a template literal formats it.
RECURSIVE NumberToString(_)
NumberToString(n) ==
  IF n < Len(Digits) THEN <<Digits[n + 1]>>
  ELSE NumberToString(n \div Len(Digits)) \o <<Digits[(n % Len(Digits)) + 1]>>

\* `${n}%`
Percent(n) == NumberToString(n) \o <<"%">>

\* the value of a missing data attribute / an unset inline style
Undefined == "undefined"

Unset == ""

Falsy(v) == v \in {Undefined, ""}

Abs(n) == IF n < 0 THEN 0 - n ELSE n

\* ------------------------------------------------------------ the page

\* A step element as createAllStoryScrollyContentInHTML writes it: its data
\* attributes, and `scrolly`, its closest(".scrolly-container") ("null"
\* when it has none).
El(step, scrolly, contentType, filePath, zoomLevel, pct) ==
  [step |-> step, scrolly |-> scrolly, contentType |-> contentType,
   filePath |-> filePath, zoomLevel |-> zoomLevel,
   latitude |-> IF contentType = "map" THEN "lat" \o zoomLevel ELSE Undefined,
   longitude |-> IF contentType = "map" THEN "long" \o zoomLevel ELSE Undefined,
   altText |-> "alt " \o contentType,
   imageOrientation |-> IF filePath = "b.jpg" THEN "Vertical" ELSE Undefined,
   textHorizontalPercentage |-> pct]

\* The documents the model is run on; each lists the step elements in
\* document order.  One story of images and maps:
ImagesAndMaps ==
  << El(<<"0">>, "story1", "image", "a.jpg", Undefined, <<"5", "0">>),
     El(<<"1">>, "story1", "image", "a.jpg", "2", <<"0">>),
     El(<<"2">>, "story1", "image", "b.jpg", Undefined, <<"5", "0">>),
     El(<<"3">>, "story1", "map", Undefined, "4", <<"5", "0">>),
     El(<<"4">>, "story1", "map", Undefined, "7", <<"6">>) >>

\* one story with videos and a step of a content type the code does not know:
VideosAndText ==
  << El(<<"9">>, "story1", "video", "v.mp4", Undefined, <<"5">>),
     El(<<"1", "0">>, "story1", "video", "v.mp4", Undefined, <<"5", "0">>),
     El(<<"1", "1">>, "story1", "text", Undefined, Undefined, <<"1", "0", "0">>),
     El(<<"1", "2">>, "story1", "video", "w.mp4", Undefined, <<"5", "0">>) >>

\* two stories on one page, the steps numbered through:
TwoStories ==
  << El(<<"0">>, "story1", "image", "a.jpg", Undefined, <<"5", "0">>),
     El(<<"1">>, "story1", "map", Undefined, "4", <<"5", "0">>),
     El(<<"2">>, "story2", "map", Undefined, "7", <<"5", "0">>) >>

\* irregular markup: an image step without a file path, a step outside any
\* .scrolly-container, and a step of a scrolly container ("broken") that
\* has a .steps-container but no .sticky-container:
Irregular ==
  << El(<<"0">>, "story1", "image", "a.jpg", Undefined, <<"5", "0">>),
     El(<<"1">>, "story1", "image", Undefined, Undefined, <<"5", "0">>),
     El(<<"2">>, "null", "image", "a.jpg", Undefined, <<"5", "0">>),
     El(<<"3">>, "broken", "image", "a.jpg", Undefined, <<"0">>) >>

Pages == {ImagesAndMaps, VideosAndText, TwoStories, Irregular}

VARIABLE page  \* the document: never changes after it is loaded

Steps == 1..Len(page)

dataset(el) == page[el]

\* scrolly instances that have a .sticky-container with its three
\* content containers
StickyInstances == {"story1", "story2"}

\* scrolly instances that have a .steps-container
StepsInstances == StickyInstances \cup {"broken"}

\* document order of the sticky instances (for document.getElementById)
DocumentOrder == <<"story1", "story2">>

ContentTypes == {"image", "map", "video"}

\* stepElement.closest(".scrolly-container")
closest(el) == dataset(el).scrolly

\* ------------------------------------------------------------ state

VARIABLES
  _stickyImageContainer,  \* instance whose container the global refers to
  _stickyMapContainer,
  _stickyVideoContainer,
  _prevStepData,          \* [tag, el, str]: null, a dataset, or a string
  _currentStep,           \* the number -1, or a data-step string
  _isTransitioning,
  isActive,               \* the step elements carrying class "is-active"
  stepsContainer,         \* per instance: style.width, step-content-hidden
  stickyContainer,        \* per instance: style.width, no-left-margin
  style,                  \* per instance and content type: opacity, display
  img,                    \* per instance: the <img> of the image container
  video,                  \* per instance: the video container and its iframe
  map,                    \* per instance: the map container and its leaflet view
  timers,                 \* pending setTimeout callbacks, in creation order
  event                   \* the last thing that ran (history)

jsVars == <<_stickyImageContainer, _stickyMapContainer, _stickyVideoContainer,
            _prevStepData, _currentStep, _isTransitioning>>

domVars == <<isActive, stepsContainer, stickyContainer, style, img, video, map>>

vars == <<page, jsVars, domVars, timers, event>>

\* src/scrolly.js:18
transitionInMilliseconds == 500

\* the "+ 100" of the fade-in callback's delay
FadeInGraceMs == 100

\* the "+ 100" of the deferred map render's delay
MapRenderGraceMs == 100

\* the clock advances in steps of the grace period, which divides every delay
TickMs == FadeInGraceMs

\* at most this many callbacks are pending at once
MaxPending == 3

JsNull == [tag |-> "null", el |-> 0, str |-> ""]

JsDataset(el) == [tag |-> "dataset", el |-> el, str |-> ""]

JsString(s) == [tag |-> "string", el |-> 0, str |-> s]

\* the number -1 that _currentStep starts with, written as it compares
\* with a data-step string under ==
MinusOne == <<"-", "1">>

NoIframe == [exists |-> FALSE, src |-> "", node |-> 0]

Init ==
  /\ page \in Pages
  /\ _stickyImageContainer = "null"
  /\ _stickyMapContainer = "null"
  /\ _stickyVideoContainer = "null"
  /\ _prevStepData = JsNull
  /\ _currentStep = MinusOne
  /\ _isTransitioning = FALSE
  /\ isActive = {}
  /\ stepsContainer = [i \in StepsInstances |-> [width |-> <<>>, hidden |-> FALSE]]
  /\ stickyContainer = [i \in StickyInstances |-> [width |-> <<>>, noLeftMargin |-> FALSE]]
  /\ style = [i \in StickyInstances |->
               [t \in ContentTypes |-> [opacity |-> Unset, display |-> Unset]]]
  /\ img = [i \in StickyInstances |->
             [src |-> Unset, alt |-> Unset, opacity |-> Unset,
              objectFit |-> Unset, transform |-> Unset]]
  /\ video = [i \in StickyInstances |->
               [iframe |-> NoIframe, ariaLabel |-> Unset, role |-> Unset]]
  /\ map = [i \in StickyInstances |-> [view |-> <<>>, ariaLabel |-> Unset]]
  /\ timers = <<>>
  /\ event = [kind |-> "load", el |-> 0, fn |-> "", needsTransition |-> FALSE]

\* ------------------------------------------------------------ helpers

\* _prevStepData.<field>: a dataset has the field, null is never asked,
\* a string has none
PrevField(prev, field) ==
  IF prev.tag = "dataset" THEN dataset(prev.el)[field] ELSE Undefined

\* the duplicate-step test left out
IsCurrentStep_Dropped(el, currentStep) == FALSE

\* stepElement.dataset.step == _currentStep
IsCurrentStep(el, currentStep) == dataset(el).step = currentStep

\* the marker added without clearing the other steps
markActive_NoClear(el, active) == active \cup {el}

\* steps.forEach(remove "is-active"); stepElement.classList.add("is-active")
markActive(el, active) == (active \ Steps) \cup {el}

\* the threshold test written < 5 instead of <= 5
setStepHorizontalWidths_Strict(el, steps, sticky) ==
  LET scrollyContainer == closest(el)
      horizontalPercentage == parseFloat(dataset(el).textHorizontalPercentage)
      narrow == horizontalPercentage < 5
      stepsWidth == IF narrow THEN <<"5", "%">> ELSE Percent(horizontalPercentage)
      stickyWidth == IF narrow THEN <<"9", "0", "%">>
                     ELSE Percent(100 - horizontalPercentage)
  IN IF scrollyContainer = "null"
     THEN [threw |-> FALSE, steps |-> steps, sticky |-> sticky]
     ELSE IF scrollyContainer \notin StickyInstances
     THEN [threw |-> TRUE,
           steps |-> [steps EXCEPT ![scrollyContainer].hidden = narrow],
           sticky |-> sticky]
     ELSE [threw |-> FALSE,
           steps |-> [steps EXCEPT ![scrollyContainer] =
                        [width |-> stepsWidth, hidden |-> narrow]],
           sticky |-> [sticky EXCEPT ![scrollyContainer] =
                        [width |-> stickyWidth, noLeftMargin |-> narrow]]]

\* lines 58-101.  The result carries the two containers' new state and
\* whether a TypeError ended the function (stickyContainer is null).
setStepHorizontalWidths(el, steps, sticky) ==
  LET scrollyContainer == closest(el)
      horizontalPercentage == parseFloat(dataset(el).textHorizontalPercentage)
      narrow == horizontalPercentage <= 5
      stepsWidth == IF narrow THEN <<"5", "%">> ELSE Percent(horizontalPercentage)
      stickyWidth == IF narrow THEN <<"9", "0", "%">>
                     ELSE Percent(100 - horizontalPercentage)
  IN IF scrollyContainer = "null"
     THEN [threw |-> FALSE, steps |-> steps, sticky |-> sticky]
     ELSE IF scrollyContainer \notin StickyInstances
     THEN \* stepsContainer.classList is changed, stickyContainer.classList throws
          [threw |-> TRUE,
           steps |-> [steps EXCEPT ![scrollyContainer].hidden = narrow],
           sticky |-> sticky]
     ELSE [threw |-> FALSE,
           steps |-> [steps EXCEPT ![scrollyContainer] =
                        [width |-> stepsWidth, hidden |-> narrow]],
           sticky |-> [sticky EXCEPT ![scrollyContainer] =
                        [width |-> stickyWidth, noLeftMargin |-> narrow]]]

\* the index test written >= 1 instead of > 1
doesRequireStickyTransition_Adjacent(prev, el) ==
  \/ prev.tag = "null"
  \/ PrevField(prev, "contentType") # dataset(el).contentType
  \/ /\ prev.tag = "dataset"
     /\ Abs(parseInt(PrevField(prev, "step")) - parseInt(dataset(el).step)) >= 1

\* lines 150-158
doesRequireStickyTransition(prev, el) ==
  \/ prev.tag = "null"
  \/ PrevField(prev, "contentType") # dataset(el).contentType
  \/ /\ prev.tag = "dataset"
     /\ Abs(parseInt(PrevField(prev, "step")) - parseInt(dataset(el).step)) > 1

\* lines 182-184: all three containers the globals refer to fade out
fadeOutAll(st, imageC, mapC, videoC) ==
  [st EXCEPT ![mapC]["map"].opacity = "0",
             ![imageC]["image"].opacity = "0",
             ![videoC]["video"].opacity = "0"]

\* the containers faded out whether or not a transition is needed
fadeOutIfNeeded_Always(needsTransition, st, imageC, mapC, videoC) ==
  fadeOutAll(st, imageC, mapC, videoC)

\* lines 115-117 with 182-184: the containers fade out only when the step
\* needs a transition
fadeOutIfNeeded(needsTransition, st, imageC, mapC, videoC) ==
  IF needsTransition THEN fadeOutAll(st, imageC, mapC, videoC) ELSE st

\* document.getElementById("the-iframe-video"): the first one in the document
theIframeVideo(vid) ==
  LET have == {k \in 1..Len(DocumentOrder) : vid[DocumentOrder[k]].iframe.exists}
  IN IF have = {} THEN "null"
     ELSE DocumentOrder[CHOOSE k \in have : \A j \in have : k <= j]

\* the embed left playing
stopPlayingVideo_Skipped(vid) == vid

\* lines 264-273
stopPlayingVideo(vid) ==
  LET iframe == theIframeVideo(vid)
  IN IF iframe # "null" THEN [vid EXCEPT ![iframe].iframe.src = ""] ELSE vid

\* the fade-in callback showing its container without hiding the other two
fadeIn_NoHide(activateContentType, st, imageC, mapC, videoC) ==
  CASE activateContentType = "image" ->
         [st EXCEPT ![imageC]["image"].opacity = "1",
                    ![imageC]["image"].display = "flex"]
    [] activateContentType = "map" ->
         [st EXCEPT ![mapC]["map"].opacity = "1",
                    ![mapC]["map"].display = "block"]
    [] activateContentType = "video" ->
         [st EXCEPT ![videoC]["video"].opacity = "1",
                    ![videoC]["video"].display = "block"]
    [] OTHER -> st

\* lines 189-210: the fade-in callback, on the containers the globals
\* refer to when it runs
fadeIn(activateContentType, st, imageC, mapC, videoC) ==
  CASE activateContentType = "image" ->
         [st EXCEPT ![imageC]["image"].opacity = "1",
                    ![imageC]["image"].display = "flex",
                    ![videoC]["video"].display = "none",
                    ![mapC]["map"].display = "none"]
    [] activateContentType = "map" ->
         [st EXCEPT ![mapC]["map"].opacity = "1",
                    ![mapC]["map"].display = "block",
                    ![imageC]["image"].display = "none",
                    ![videoC]["video"].display = "none"]
    [] activateContentType = "video" ->
         [st EXCEPT ![videoC]["video"].opacity = "1",
                    ![videoC]["video"].display = "block",
                    ![imageC]["image"].display = "none",
                    ![mapC]["map"].display = "none"]
    [] OTHER -> st

\* the map render given 100 ms more than the delay it is scheduled with
Timer_LateRender(delay, fn, el, inst) ==
  [rem |-> IF fn = "displayMap" THEN delay + 100 ELSE delay,
   fn |-> fn, el |-> el, inst |-> inst]

\* a pending callback: the delay left, what it runs, and the step and
\* scrolly instance of the handler run that scheduled it
Timer(delay, fn, el, inst) == [rem |-> delay, fn |-> fn, el |-> el, inst |-> inst]

\* a scheduler that drops the pending callbacks of the same function, as a
\* clearTimeout before each setTimeout would
setTimeout_Cancelling(q, fn, delay, el, inst) ==
  Append(SelectSeq(q, LAMBDA t : t.fn # fn), Timer(delay, fn, el, inst))

\* setTimeout(fn, delay) of lines 129, 189 and 228: the callback joins the
\* pending ones; no handle is kept and clearTimeout is never called
setTimeout(q, fn, delay, el, inst) == Append(q, Timer(delay, fn, el, inst))

\* the comparison with the previous file path left out
imageChanged_NoCompare(prev, el) ==
  \/ prev.tag = "null"
  \/ ~Falsy(dataset(el).filePath)

\* lines 217-220: does displayStickyImage replace the image
imageChanged(prev, el) ==
  \/ prev.tag = "null"
  \/ /\ ~Falsy(dataset(el).filePath)
     /\ PrevField(prev, "filePath") # dataset(el).filePath

\* lines 213-240, the synchronous part
displayStickyImage(prev, el, images, imageC) ==
  LET faded == IF imageChanged(prev, el)
               THEN [images EXCEPT ![imageC].opacity = "0"] ELSE images
  IN IF ~Falsy(dataset(el).zoomLevel)
     THEN [faded EXCEPT ![imageC].transform = "scale(" \o dataset(el).zoomLevel \o ")"]
     ELSE faded

toLowerCase(s) == IF s = "Vertical" THEN "vertical" ELSE s

\* lines 242-248
setImageOrientation(imageOrientation) ==
  IF ~Falsy(imageOrientation) /\ toLowerCase(imageOrientation) = "vertical"
  THEN "contain" ELSE "cover"

\* lines 228-235: the image callback, on the <img> it captured
swapImage(el, images, imageC) ==
  [images EXCEPT ![imageC].src = dataset(el).filePath,
                 ![imageC].alt = dataset(el).altText,
                 ![imageC].opacity = "1",
                 ![imageC].objectFit = setImageOrientation(dataset(el).imageOrientation)]

\* the embed kept when it already plays the step's URL
displayStickyVideo_Diffing(el, vid, videoC) ==
  IF vid[videoC].iframe.exists /\ vid[videoC].iframe.src = dataset(el).filePath
  THEN [vid EXCEPT ![videoC].ariaLabel = dataset(el).altText,
                   ![videoC].role = "tooltip"]
  ELSE [vid EXCEPT ![videoC] =
          [iframe |-> [exists |-> TRUE, src |-> dataset(el).filePath,
                       node |-> 1 - vid[videoC].iframe.node],
           ariaLabel |-> dataset(el).altText,
           role |-> "tooltip"]]

\* lines 250-259: innerHTML is replaced, so the iframe is a new node
displayStickyVideo(el, vid, videoC) ==
  [vid EXCEPT ![videoC] =
     [iframe |-> [exists |-> TRUE, src |-> dataset(el).filePath,
                  node |-> 1 - vid[videoC].iframe.node],
      ariaLabel |-> dataset(el).altText,
      role |-> "tooltip"]]

\* displayStickyMap of leaflet-maps.js draws the map of the container
\* with the given id; it sizes itself by the container as it is then
displayStickyMap(el, maps, mapC, st) ==
  [maps EXCEPT ![mapC].view =
     <<dataset(el).latitude, dataset(el).longitude, dataset(el).zoomLevel,
       st[mapC]["map"].display \notin {Unset, "none"}>>]

\* lines 275-277
addAltTextToMap(maps, mapC, altText) == [maps EXCEPT ![mapC].ariaLabel = altText]

\* ------------------------------------------------------------ actions

Ran(kind, el, fn, needs) ==
  [kind |-> kind, el |-> el, fn |-> fn, needsTransition |-> needs]

\* lines 32-35: the reentrancy guard drops the event
ignoreStepEnter(el) ==
  /\ event' = Ran("ignored", el, "", FALSE)
  /\ UNCHANGED <<jsVars, domVars, timers>>

\* lines 39-43: the step is the current one
alreadyAtStep(el) ==
  /\ _isTransitioning' = FALSE
  /\ event' = Ran("duplicate", el, "", FALSE)
  /\ UNCHANGED <<_stickyImageContainer, _stickyMapContainer, _stickyVideoContainer,
                 _prevStepData, _currentStep, domVars, timers>>

\* An uncaught TypeError ends the handler where it stands: line 55 is not
\* reached, what was assigned before stays assigned.
throwTypeError(el) ==
  /\ _isTransitioning' = TRUE
  /\ event' = Ran("threw", el, "", FALSE)
  /\ UNCHANGED <<_stickyImageContainer, _stickyMapContainer, _stickyVideoContainer,
                 _prevStepData, style, img, video, map, timers>>

\* what the renderer left in _prevStepData kept
recordPrevStepData_Skipped(afterRenderer, el) == afterRenderer

\* line 147, after the renderer of the content type has run
recordPrevStepData(afterRenderer, el) == JsDataset(el)

\* lines 106-148, for a step whose scrolly container has a sticky container
replaceStepStickyContent(el) ==
  LET stepData == dataset(el)
      \* setCurrentStickyContainers, lines 160-176
      inst == closest(el)
      needsTransition == doesRequireStickyTransition(_prevStepData, el)
      \* transitionToNewStickyContentContainer, lines 178-211
      style1 == fadeOutIfNeeded(needsTransition, style, inst, inst, inst)
      video1 == IF needsTransition THEN stopPlayingVideo(video) ELSE video
      timers1 == IF needsTransition
                 THEN setTimeout(timers, "fadeIn",
                                 transitionInMilliseconds + FadeInGraceMs, el, inst)
                 ELSE timers
      isImage == stepData.contentType = "image"
      isVideo == stepData.contentType = "video"
      isMap == stepData.contentType = "map"
      timers2 == IF isImage /\ imageChanged(_prevStepData, el)
                 THEN setTimeout(timers1, "swapImage", transitionInMilliseconds, el, inst)
                 ELSE IF isMap /\ needsTransition
                 THEN setTimeout(timers1, "displayMap",
                                 transitionInMilliseconds + MapRenderGraceMs, el, inst)
                 ELSE timers1
      map1 == IF isMap /\ ~needsTransition
              THEN displayStickyMap(el, map, inst, style1) ELSE map
      \* line 261 leaves the file path in _prevStepData
      prev1 == IF isVideo THEN JsString(stepData.filePath) ELSE _prevStepData
  IN /\ _stickyImageContainer' = inst
     /\ _stickyMapContainer' = inst
     /\ _stickyVideoContainer' = inst
     /\ style' = style1
     /\ img' = IF isImage THEN displayStickyImage(_prevStepData, el, img, inst) ELSE img
     /\ video' = IF isVideo THEN displayStickyVideo(el, video1, inst) ELSE video1
     /\ map' = IF isMap THEN addAltTextToMap(map1, inst, stepData.altText) ELSE map1
     /\ timers' = timers2
     /\ _prevStepData' = recordPrevStepData(prev1, el)
     /\ event' = Ran("processed", el, "", needsTransition)

\* the flag held for as long as the transition of the step runs
transitioningAtReturn_WhileFading(needsTransition) == needsTransition

\* line 55: the flag is reset before the handler returns, whether or not
\* callbacks of the step are still to run
transitioningAtReturn(needsTransition) == FALSE

\* lines 44-55
enterStep(el) ==
  LET widths == setStepHorizontalWidths(el, stepsContainer, stickyContainer)
  IN /\ _currentStep' = dataset(el).step
     /\ isActive' = markActive(el, isActive)
     /\ stepsContainer' = widths.steps
     /\ stickyContainer' = widths.sticky
     /\ IF widths.threw \/ closest(el) = "null"
        THEN \* line 83/90, or line 166: scrollyContainer is null
             throwTypeError(el)
        ELSE /\ replaceStepStickyContent(el)
             /\ _isTransitioning' =
                  transitioningAtReturn(doesRequireStickyTransition(_prevStepData, el))

\* lines 31-56
handleStepEnter(el) ==
  IF _isTransitioning THEN ignoreStepEnter(el)
  ELSE IF IsCurrentStep(el, _currentStep) THEN alreadyAtStep(el)
  ELSE enterStep(el)

\* scrollama reports that a step was entered
StepEnter ==
  \E el \in Steps :
    /\ handleStepEnter(el)
    /\ Len(timers') <= MaxPending
    /\ UNCHANGED page

\* the callback that runs next: the first created of those that are due
Due == {k \in 1..Len(timers) : timers[k].rem = 0}

RemoveAt(q, k) == SubSeq(q, 1, k - 1) \o SubSeq(q, k + 1, Len(q))

runCallback(t) ==
  /\ style' = IF t.fn = "fadeIn"
              THEN fadeIn(dataset(t.el).contentType, style, _stickyImageContainer,
                          _stickyMapContainer, _stickyVideoContainer)
              ELSE style
  /\ img' = IF t.fn = "swapImage" THEN swapImage(t.el, img, t.inst) ELSE img
  /\ map' = IF t.fn = "displayMap"
            THEN displayStickyMap(t.el, map, _stickyMapContainer, style)
            ELSE map
  /\ UNCHANGED <<jsVars, isActive, stepsContainer, stickyContainer, video>>

Timeout ==
  /\ Due # {}
  /\ LET k == CHOOSE k \in Due : \A j \in Due : k <= j
     IN /\ runCallback(timers[k])
        /\ timers' = RemoveAt(timers, k)
        /\ event' = Ran("timeout", timers[k].el, timers[k].fn, FALSE)
        /\ UNCHANGED page

\* time passes while no callback is due
Tick ==
  /\ timers # <<>>
  /\ Due = {}
  /\ timers' = [k \in 1..Len(timers) |-> [timers[k] EXCEPT !.rem = @ - TickMs]]
  /\ event' = Ran("tick", 0, "", FALSE)
  /\ UNCHANGED <<page, jsVars, domVars>>

Next == StepEnter \/ Timeout \/ Tick

Spec == Init /\ [][Next]_vars

\* ------------------------------------------------------------ properties

\* the kinds of `event` that are one run of handleStepEnter
HandlerKinds == {"ignored", "duplicate", "processed", "threw"}

\* a container is visible: opacity 1 and display not none
Visible(inst, type) ==
  /\ style[inst][type].opacity = "1"
  /\ style[inst][type].display # "none"

\* no deferred callback is pending
Steady == timers = <<>>

\* the position in the document of the element a dataset belongs to; the
\* pages number their steps through, so positions differ as indices do
IndexDelta(a, b) == Abs(a - b)

\* C1: a step-enter event whose step index equals the current step index
\* changes nothing: no module variable, no DOM state, no pending callback.
C1_DuplicateStepIsNoOp ==
  [][(/\ event'.kind \in HandlerKinds
      /\ page[event'.el].step = _currentStep)
     => UNCHANGED <<jsVars, domVars, timers>>]_vars

\* C1 witness: a duplicate event was delivered while callbacks were pending
C1_Witness ==
  /\ event.kind = "duplicate"
  /\ timers # <<>>
  /\ page[event.el].contentType = "video"

\* C2: the handler needs a transition iff there is no previous step, or
\* the content type differs, or the step indices differ by more than 1.
C2_NeedsTransitionIff ==
  [][event'.kind = "processed"
     => (event'.needsTransition <=>
           \/ _prevStepData = JsNull
           \/ /\ _prevStepData.tag = "dataset"
              /\ \/ page[_prevStepData.el].contentType # page[event'.el].contentType
                 \/ IndexDelta(_prevStepData.el, event'.el) > 1)]_vars

\* C2 witness: a step of the same type as its predecessor, one index away,
\* was processed without a transition
C2_Witness ==
  /\ event.kind = "processed"
  /\ ~event.needsTransition
  /\ page[event.el].contentType = "image"

\* C3: with no callback pending, at most one of the three sticky
\* containers of a scrolly instance is visible.
C3_AtMostOneVisible ==
  Steady =>
    \A inst \in StickyInstances :
      Cardinality({t \in ContentTypes : Visible(inst, t)}) <= 1

\* C3 witness: steady, one container visible, and another container of
\* the same instance that was shown earlier still has opacity 1
C3_Witness ==
  /\ Steady
  /\ \E inst \in StickyInstances : \E t, u \in ContentTypes :
       /\ t # u
       /\ Visible(inst, t)
       /\ style[inst][u].opacity = "1"

\* the handler ran to its end for the current step: the step's dataset is
\* the recorded previous step
CurrentStepProcessed ==
  /\ _prevStepData.tag = "dataset"
  /\ page[_prevStepData.el].step = _currentStep

\* C4: in a steady state whose current step was processed and has a
\* recognized content type, the container of that type, in the step's
\* scrolly instance, is visible and the other two have display none.
C4_VisibleMatchesCurrentStep ==
  (Steady /\ CurrentStepProcessed
          /\ page[_prevStepData.el].contentType \in ContentTypes)
  => LET inst == page[_prevStepData.el].scrolly
         type == page[_prevStepData.el].contentType
     IN /\ Visible(inst, type)
        /\ \A u \in ContentTypes \ {type} : style[inst][u].display = "none"

\* C5: _isTransitioning is false whenever no handler is running, that is
\* in every state between two actions.
C5_NeverLeftTransitioning == _isTransitioning = FALSE

Layout(inst) ==
  [stepsWidth |-> stepsContainer[inst].width,
   stickyWidth |-> stickyContainer[inst].width,
   hidden |-> stepsContainer[inst].hidden,
   noLeftMargin |-> stickyContainer[inst].noLeftMargin]

\* the layout the text percentage p stands for
LayoutOf(p) ==
  IF p <= 5
  THEN [stepsWidth |-> <<"5", "%">>, stickyWidth |-> <<"9", "0", "%">>,
        hidden |-> TRUE, noLeftMargin |-> TRUE]
  ELSE [stepsWidth |-> Percent(p), stickyWidth |-> Percent(100 - p),
        hidden |-> FALSE, noLeftMargin |-> FALSE]

\* C7: a processed step with text percentage p leaves its scrolly instance
\* with text width 5%, sticky width 90% and both markers set if p <= 5, and
\* with text width p%, sticky width (100 - p)% and both markers cleared
\* otherwise, whatever the layout was before; nothing else changes a
\* layout.  A percentage of 50 gives 50% and 50%.
C7_LayoutFollowsPercentage ==
  [][\A inst \in StickyInstances :
       IF event'.kind = "processed" /\ page[event'.el].scrolly = inst
       THEN /\ Layout(inst)' = LayoutOf(parseFloat(page[event'.el].textHorizontalPercentage))
            /\ page[event'.el].textHorizontalPercentage = <<"5", "0">>
                 => /\ stepsContainer'[inst].width = <<"5", "0", "%">>
                    /\ stickyContainer'[inst].width = <<"5", "0", "%">>
                    /\ ~stepsContainer'[inst].hidden
       ELSE Layout(inst)' = Layout(inst)]_vars

\* C7 witness: a step with percentage 5 was processed and its text column
\* is hidden at width 5%
C7_Witness ==
  /\ event.kind = "processed"
  /\ page[event.el].textHorizontalPercentage = <<"5">>
  /\ Layout(page[event.el].scrolly) = LayoutOf(0)

\* the pending callbacks that replace an image
SwapImageTimers(q) == {k \in 1..Len(q) : q[k].fn = "swapImage"}

\* what a processed image step that replaces its image does at once: the
\* image fades out, its source stays, and the callback that replaces the
\* source is scheduled with the transition delay
ImageFadesThenSwaps(el) ==
  LET inst == page[el].scrolly
  IN /\ img'[inst].opacity = "0"
     /\ img'[inst].src = img[inst].src
     /\ \E k \in SwapImageTimers(timers') :
          /\ k > Len(timers)
          /\ timers'[k].el = el
          /\ timers'[k].rem = transitionInMilliseconds

\* what a processed image step that keeps its image does
ImageKept(el) ==
  LET inst == page[el].scrolly
  IN /\ img'[inst].opacity = img[inst].opacity
     /\ img'[inst].src = img[inst].src
     /\ Cardinality(SwapImageTimers(timers')) = Cardinality(SwapImageTimers(timers))

\* an image source changes only when a due image callback runs, and then to
\* the file path of the step that scheduled it
SourceChangesOnlyInCallback ==
  \A inst \in StickyInstances :
    img'[inst].src # img[inst].src
    => /\ event'.kind = "timeout"
       /\ event'.fn = "swapImage"
       /\ img'[inst].src = page[event'.el].filePath
       /\ \E k \in SwapImageTimers(timers) :
            timers[k].rem = 0 /\ timers[k].el = event'.el

\* an image step that follows another step is processed
ImageStepAfterAnother ==
  /\ event'.kind = "processed"
  /\ page[event'.el].contentType = "image"
  /\ _prevStepData.tag = "dataset"

\* C8 as stated: an image step with the file path of the previous step
\* keeps its image; one whose file path differs fades the image at once and
\* has the source replaced only by the callback, after the delay.
C8_ImageSwapOnlyOnPathChange ==
  [][/\ ImageStepAfterAnother
          => IF page[_prevStepData.el].filePath = page[event'.el].filePath
             THEN ImageKept(event'.el)
             ELSE ImageFadesThenSwaps(event'.el)
     /\ SourceChangesOnlyInCallback]_vars

\* C8 amended: an image step with the file path of the previous step, or
\* with no file path at all, keeps its image; one that has a file path
\* differing from the previous step's fades the image at once and has the
\* source replaced only by the callback, after the delay.
C8_ImageSwapOnlyOnNewPath ==
  [][/\ ImageStepAfterAnother
          => IF \/ page[_prevStepData.el].filePath = page[event'.el].filePath
                \/ page[event'.el].filePath \in {Undefined, ""}
             THEN ImageKept(event'.el)
             ELSE ImageFadesThenSwaps(event'.el)
     /\ SourceChangesOnlyInCallback]_vars

\* C8 witness: an image step with a new file path was processed; the old
\* source is still shown, faded, and the callback waits its full delay
C8_Witness ==
  /\ event.kind = "processed"
  /\ page[event.el].contentType = "image"
  /\ LET inst == page[event.el].scrolly
     IN /\ img[inst].opacity = "0"
        /\ img[inst].src \notin {Unset, page[event.el].filePath}
        /\ \E k \in SwapImageTimers(timers) :
             timers[k].el = event.el /\ timers[k].rem = transitionInMilliseconds

\* C9: a processed video step leaves a new embed element in its video
\* container, whose source is the step's file path, whatever was there.
C9_VideoStepRebuildsEmbed ==
  [][(event'.kind = "processed" /\ page[event'.el].contentType = "video")
     => LET inst == page[event'.el].scrolly
        IN /\ video'[inst].iframe.exists
           /\ video'[inst].iframe.src = page[event'.el].filePath
           /\ video'[inst].iframe.node # video[inst].iframe.node]_vars

\* C9 witness: a video step that needed a container swap was processed
\* over an embed that existed, and the embed has the step's source
C9_Witness ==
  /\ event.kind = "processed"
  /\ event.needsTransition
  /\ page[event.el].contentType = "video"
  /\ video[page[event.el].scrolly].iframe = 
       [exists |-> TRUE, src |-> page[event.el].filePath, node |-> 0]

\* C10: at most one step carries the active marker, and once a step was
\* entered exactly the step whose index is the current step carries it.
C10_OneActiveStep ==
  /\ Cardinality(isActive) <= 1
  /\ _currentStep # MinusOne
       => /\ isActive = {el \in Steps : page[el].step = _currentStep}
          /\ Cardinality(isActive) = 1

\* C10 witness: the marker is on a step of the second story after a step
\* of the first story was processed
C10_Witness ==
  \E el \in isActive :
    /\ page[el].scrolly = "story2"
    /\ stepsContainer["story1"].width # <<>>

\* the container the fade-in callback of a step shows, as the globals stand
ShownBy(el) ==
  CASE page[el].contentType = "image" -> _stickyImageContainer
    [] page[el].contentType = "map" -> _stickyMapContainer
    [] page[el].contentType = "video" -> _stickyVideoContainer
    [] OTHER -> "null"

\* the pending callbacks, without their remaining delays
Pending(q) == [k \in 1..Len(q) |-> [fn |-> q[k].fn, el |-> q[k].el, inst |-> q[k].inst]]

\* C11: scheduled callbacks are never cancelled: a handler run keeps every
\* pending callback and only appends, the passing of time keeps them all,
\* and a callback leaves the queue only by running when it is due.  A
\* fade-in callback that runs makes the container of its own step's type
\* visible, whatever the current step is by then.
C11_StaleCallbacksFire ==
  [][/\ event'.kind \in HandlerKinds
          => /\ Len(timers') >= Len(timers)
             /\ SubSeq(timers', 1, Len(timers)) = timers
     /\ event'.kind = "tick" => Pending(timers') = Pending(timers)
     /\ event'.kind = "timeout"
          => \E k \in 1..Len(timers) :
               /\ timers[k].rem = 0
               /\ timers[k].fn = event'.fn
               /\ timers[k].el = event'.el
               /\ timers' = RemoveAt(timers, k)
     /\ (/\ event'.kind = "timeout"
         /\ event'.fn = "fadeIn"
         /\ page[event'.el].contentType \in ContentTypes)
          => /\ style'[ShownBy(event'.el)][page[event'.el].contentType].opacity = "1"
             /\ style'[ShownBy(event'.el)][page[event'.el].contentType].display
                  \notin {Unset, "none"}]_vars

\* C11 witness: the fade-in callback of an earlier step has just run and
\* its container is visible, while the current step, processed since, has
\* another content type and its own fade-in callback is still pending
C11_Witness ==
  /\ event.kind = "timeout"
  /\ event.fn = "fadeIn"
  /\ CurrentStepProcessed
  /\ page[_prevStepData.el].contentType \in ContentTypes
  /\ page[event.el].contentType \in ContentTypes \ {page[_prevStepData.el].contentType}
  /\ Visible(page[event.el].scrolly, page[event.el].contentType)
  /\ \E k \in 1..Len(timers) :
       /\ timers[k].fn = "fadeIn"
       /\ timers[k].el = _prevStepData.el
       /\ timers[k].rem > 0

\* what the map of a scrolly instance was last rendered at
RenderedAt(inst) ==
  IF map[inst].view = <<>> THEN <<>> ELSE SubSeq(map[inst].view, 1, 3)

\* the latitude, longitude and zoom level of a map step
MapViewOf(el) == <<page[el].latitude, page[el].longitude, page[el].zoomLevel>>

\* C12: in a steady state whose current step is a processed map step, the
\* map of the step's scrolly instance is rendered at the latitude,
\* longitude and zoom level of that step.
C12_MapShowsCurrentStep ==
  (Steady /\ CurrentStepProcessed /\ page[_prevStepData.el].contentType = "map")
  => RenderedAt(page[_prevStepData.el].scrolly) = MapViewOf(_prevStepData.el)

\* C13: the map is rendered only while its container is visible: a
\* processed map step that needs no transition renders at once, into the
\* map container of its scrolly instance, and a due map callback renders
\* into the container the global refers to; either container has opacity
\* 1 and a display other than none when that happens.
C13_MapRenderedOnlyWhenVisible ==
  [][/\ (/\ event'.kind = "processed"
         /\ page[event'.el].contentType = "map"
         /\ ~event'.needsTransition)
          => Visible(page[event'.el].scrolly, "map")
     /\ (event'.kind = "timeout" /\ event'.fn = "displayMap")
          => Visible(_stickyMapContainer, "map")]_vars

\* a map step that needs a transition is processed
MapSwap ==
  /\ event'.kind = "processed"
  /\ event'.needsTransition
  /\ page[event'.el].contentType = "map"

\* the handler run scheduled two callbacks for its step, in this order: the
\* fade-in with delay fadeInDelay, the map render with delay renderDelay
ScheduledFadeInThenRender(fadeInDelay, renderDelay) ==
  LET n == Len(timers)
  IN /\ Len(timers') = n + 2
     /\ timers'[n + 1].fn = "fadeIn"
     /\ timers'[n + 1].el = event'.el
     /\ timers'[n + 1].rem = fadeInDelay
     /\ timers'[n + 2].fn = "displayMap"
     /\ timers'[n + 2].el = event'.el
     /\ timers'[n + 2].rem = renderDelay

\* while the fade-in callback of a map step is pending, the map render of
\* the same handler run is pending right behind it with the same delay left
RenderFollowsFadeIn(q) ==
  \A k \in 1..Len(q) :
    (q[k].fn = "fadeIn" /\ page[q[k].el].contentType = "map")
    => /\ k < Len(q)
       /\ q[k + 1] = [q[k] EXCEPT !.fn = "displayMap"]

FadeInTimers(q) == SelectSeq(q, LAMBDA t : t.fn = "fadeIn")

\* the content of the sticky containers other than the one of the given
\* type in the given scrolly instance
OtherContent(inst, type, images, maps, videos) ==
  [i \in StickyInstances |->
     [image |-> IF i = inst /\ type = "image" THEN <<>> ELSE images[i],
      map |-> IF i = inst /\ type = "map" THEN <<>> ELSE maps[i],
      video |-> IF i = inst /\ type = "video" THEN <<>> ELSE videos[i]]]

\* C15: a processed step that needs no transition changes the opacity and
\* the display of no sticky container and schedules no fade-in callback;
\* of the containers' content it changes at most that of the container of
\* its own type in its own scrolly instance.
C15_NoSwapKeepsContainers ==
  [][(event'.kind = "processed" /\ ~event'.needsTransition)
     => /\ style' = style
        /\ FadeInTimers(timers') = FadeInTimers(timers)
        /\ OtherContent(page[event'.el].scrolly, page[event'.el].contentType,
                        img', map', video')
             = OtherContent(page[event'.el].scrolly, page[event'.el].contentType,
                            img, map, video)]_vars

\* C15 witness: a map step was processed without a transition and its map
\* was redrawn while a container of another type was the visible one
C15_Witness ==
  /\ event.kind = "processed"
  /\ ~event.needsTransition
  /\ page[event.el].contentType = "map"
  /\ RenderedAt(page[event.el].scrolly) = MapViewOf(event.el)
  /\ \E t \in ContentTypes \ {"map"} : Visible(page[event.el].scrolly, t)

\* C16: in a steady state whose current step was processed and has a
\* content type that is none of image, map and video, no sticky container
\* of the step's scrolly instance is visible.
C16_UnrecognizedTypeShowsNothing ==
  (Steady /\ CurrentStepProcessed
          /\ page[_prevStepData.el].contentType \notin ContentTypes)
  => \A t \in ContentTypes : ~Visible(page[_prevStepData.el].scrolly, t)

\* C17: what a step does to the sticky containers, in its handler run and
\* in the callbacks that run scheduled, it does to the containers of the
\* scrolly instance that encloses the step: the opacity and display of the
\* containers of every other instance, and the view of its map, stay.
C17_CallbacksActOnOwnInstance ==
  [][\A inst \in StickyInstances :
       (/\ event'.kind \in {"processed", "timeout"}
        /\ page[event'.el].scrolly # inst)
       => /\ style'[inst] = style[inst]
          /\ map'[inst].view = map[inst].view]_vars

\* every step of the page is inside a scrolly container that has a sticky
\* container
WellFormed == \A el \in Steps : page[el].scrolly \in StickyInstances

\* C18: on a well-formed page _isTransitioning is false when a step-enter
\* event arrives, so no event is dropped by the guard; an event whose step
\* index is not the current one is processed to the end, callbacks pending
\* or not: the step becomes the current one and the recorded one, it alone
\* is marked active, and the callbacks it needs join the pending ones.
C18_GuardNeverDropsEvent ==
  [][(WellFormed /\ event'.kind \in HandlerKinds)
     => /\ ~_isTransitioning
        /\ ~_isTransitioning'
        /\ event'.kind # "ignored"
        /\ page[event'.el].step # _currentStep
             => /\ event'.kind = "processed"
                /\ _currentStep' = page[event'.el].step
                /\ _prevStepData' = JsDataset(event'.el)
                /\ isActive' = {event'.el}
                /\ SubSeq(timers', 1, Len(timers)) = timers
                /\ event'.needsTransition
                     => /\ Len(timers') > Len(timers)
                        /\ timers'[Len(timers) + 1] =
                             Timer(transitionInMilliseconds + 100, "fadeIn",
                                   event'.el, page[event'.el].scrolly)]_vars

\* C18 witness: on a well-formed page a step was processed and scheduled
\* its fade-in while a callback of an earlier step was still pending
C18_Witness ==
  /\ WellFormed
  /\ event.kind = "processed"
  /\ Len(timers) >= 2
  /\ timers[1].el # event.el
  /\ timers[1].rem < transitionInMilliseconds
  /\ timers[Len(timers)].el = event.el
  /\ _currentStep = page[event.el].step
  /\ ~_isTransitioning

\* all steps of the page belong to one scrolly instance
OneInstance == \A a, b \in Steps : page[a].scrolly = page[b].scrolly

\* the embed of a scrolly instance is absent or has a blank source
VideoSilent(vid, inst) == vid[inst].iframe.exists => vid[inst].iframe.src = ""

\* C19: on a page with one scrolly instance, after every handler run that
\* leaves a processed current step of another content type than video, the
\* embedded video, if there is one, has a blank source, and no callback
\* changes an embed.
C19_VideoStoppedOffVideoStep ==
  [][/\ (/\ OneInstance
         /\ CurrentStepProcessed'
         /\ page[_prevStepData'.el].contentType # "video")
          => VideoSilent(video', page[_prevStepData'.el].scrolly)
     /\ event'.kind \in {"timeout", "tick"} => video' = video]_vars

\* C19 witness: a step that is no video step was processed after a video
\* step; the embed is still there, its source is blank
C19_Witness ==
  /\ OneInstance
  /\ event.kind = "processed"
  /\ page[event.el].contentType = "text"
  /\ CurrentStepProcessed
  /\ video[page[event.el].scrolly].iframe.exists
  /\ video[page[event.el].scrolly].iframe.src = ""

\* C20: on a well-formed page, between any two events, _prevStepData is
\* either null, and then no step was entered and _currentStep is -1, or it
\* is the dataset of a step whose index is _currentStep; it is never the
\* file path string that the video renderer assigns on its way.
C20_SessionStateConsistent ==
  WellFormed
  => \/ _prevStepData = JsNull /\ _currentStep = MinusOne
     \/ /\ _prevStepData.tag = "dataset"
        /\ _prevStepData.el \in Steps
        /\ page[_prevStepData.el].step = _currentStep
        /\ event.kind = "processed" => _prevStepData.el = event.el

\* C20 witness: a video step was processed on a well-formed page and the
\* recorded previous step is its dataset
C20_Witness ==
  /\ WellFormed
  /\ event.kind = "processed"
  /\ page[event.el].contentType = "video"
  /\ _prevStepData = JsDataset(event.el)
  /\ _currentStep = page[event.el].step

====
